---- MODULE Spec2Model ----
(***************************************************************************)
(* backup-folder (index.js): incremental backup of a local folder to a     *)
(* bucket.  A run loads the sidecar (.backup-folder.json), walks the       *)
(* source folder, submits an upload task for every file modified at or     *)
(* after the loaded watermark, waits for the queue, rewrites the sidecar   *)
(* and uploads it.  Time is the wall clock in whole milliseconds.          *)
(***************************************************************************)
EXTENDS Integers, Sequences, FiniteSets

\* ---- bounds of the model ----
MaxTime == 2
NumFiles == 2
MaxRuns == 2
\* the scan of a large folder: files submitted, task steps taken
MaxTasks == 102
MaxSteps == 1

\* ---- program constants ----
retries == 3
concurrency == 100

\* ---- values ----
NoFile == -1
NaN == -2
NotWalked == -3
Meta == 0
Files == 1..NumFiles
Paths == Files \cup {Meta}

VARIABLES now, files, sidecar, pc, onlyPrint, metadata, lastUploadTimeMs,
          uploadStartTime, unvisited, walked, tasks, totalFiles,
          totalUploadedFiles, runs, putCalls, sidecarAtStart, commitStart,
          isWinows, ioError, totalSize, totalUploadedSize, writes

vars == <<now, files, sidecar, pc, onlyPrint, metadata, lastUploadTimeMs,
          uploadStartTime, unvisited, walked, tasks, totalFiles,
          totalUploadedFiles, runs, putCalls, sidecarAtStart, commitStart,
          isWinows, ioError, totalSize, totalUploadedSize, writes>>

runVars == <<onlyPrint, metadata, lastUploadTimeMs, uploadStartTime,
             unvisited, walked, tasks, totalFiles, totalUploadedFiles,
             putCalls, sidecarAtStart, ioError, totalSize,
             totalUploadedSize, writes>>

\* ---- timestamps: Date objects in memory, ISO strings in the sidecar ----
DateOf(t) == <<"date", t>>
\* variant: the timestamp is written with a coarser unit
ToISOStringCoarse(d) ==
    IF d[1] = "date" THEN <<"iso", d[2] - (d[2] % 2)>> ELSE d
ToISOString(d) == IF d[1] = "date" THEN <<"iso", d[2]>> ELSE d
\* new Date(x).getTime(): a Date or a well-formed ISO string gives its
\* milliseconds, anything else gives NaN
GetTime(x) == IF x[1] \in {"date", "iso"} THEN x[2] ELSE NaN
BadString == <<"bad", 0>>

\* JavaScript >= on numbers: false when either side is NaN
GE(a, b) == a # NaN /\ b # NaN /\ a >= b
LT(a, b) == a # NaN /\ b # NaN /\ a < b

\* ---- the sidecar file on disk ----
AbsentSidecar == [kind |-> "absent", chain |-> <<>>, mtime |-> NoFile]
RunRecord(s, e) == [uploadStartTime |-> s, uploadEndTime |-> e]

\* JSON.stringify(metadata): Dates become ISO strings
Stringify(m) ==
    [i \in 1..Len(m) |-> RunRecord(ToISOString(m[i].uploadStartTime),
                                   ToISOString(m[i].uploadEndTime))]

\* variant: the nested history is kept
DeleteLastMetaDataKeep(m) == m
\* delete metadata.lastMetaData: only the top-level record is kept
DeleteLastMetaData(m) == IF Len(m) = 0 THEN <<>> ELSE <<m[1]>>

\* variant: a sidecar that does not parse is ignored like a missing one
ReadMetadataLenient(sc) ==
    IF sc.kind \in {"absent", "corrupt"} THEN [exit |-> FALSE, metadata |-> <<>>]
    ELSE IF Len(sc.chain) = 0 THEN [exit |-> TRUE, metadata |-> sc.chain]
    ELSE [exit |-> FALSE, metadata |-> sc.chain]
\* variant: a missing sidecar is an error like any other read failure
ReadMetadataStrict(sc) ==
    IF sc.kind \in {"absent", "corrupt"} THEN [exit |-> TRUE, metadata |-> <<>>]
    ELSE IF Len(sc.chain) = 0 THEN [exit |-> TRUE, metadata |-> sc.chain]
    ELSE [exit |-> FALSE, metadata |-> sc.chain]
\* lines 154-173: read and validate the sidecar
ReadMetadata(sc) ==
    IF sc.kind = "absent" THEN [exit |-> FALSE, metadata |-> <<>>]
    ELSE IF sc.kind = "corrupt" THEN [exit |-> TRUE, metadata |-> <<>>]
    ELSE IF Len(sc.chain) = 0 THEN [exit |-> TRUE, metadata |-> sc.chain]
    ELSE [exit |-> FALSE, metadata |-> sc.chain]

\* variant: the stored run-start time is not used
LastUploadTimeMsEpoch(m) == GetTime(DateOf(0))
\* line 174: new Date(metadata.uploadStartTime || 0).getTime()
LastUploadTimeMs(m) ==
    IF Len(m) = 0 THEN GetTime(DateOf(0)) ELSE GetTime(m[1].uploadStartTime)

\* variant: strict comparison
ShouldUploadStrict(mtimeMs, watermark) ==
    GE(mtimeMs, watermark) /\ mtimeMs # watermark
\* line 207: the change filter
ShouldUpload(mtimeMs, watermark) == GE(mtimeMs, watermark)

\* ---- the parallel queue ----
Running(ts) == Cardinality({i \in DOMAIN ts : ts[i].state = "running"})
\* the object handed to upload: {path, size}
FileRecord(p, sz) == [path |-> p, size |-> sz]
NewTask(file, st) ==
    [path |-> file.path, size |-> file.size, state |-> st,
     actualRetries |-> 0, attempts |-> 0, lastError |-> 0, thrown |-> 0,
     putOk |-> FALSE]
\* variant: a submitted task is started whatever the number in flight
QueueAddEager(ts, file) == Append(ts, NewTask(file, "running"))
\* queue.fn(...)(file): run at once when a slot is free, else wait in line
QueueAdd(ts, file) ==
    Append(ts, NewTask(file, IF Running(ts) < concurrency
                             THEN "running" ELSE "queued"))
\* a finished task frees its slot for the first waiting task
StartNext(ts) ==
    LET q == {i \in DOMAIN ts : ts[i].state = "queued"} IN
    IF q = {} \/ Running(ts) >= concurrency THEN ts
    ELSE LET j == CHOOSE i \in q : \A k \in q : i <= k IN
         [ts EXCEPT ![j].state = "running"]
\* variant: waitIdle settles without waiting
QueueIdleNoWait(ts) == TRUE
\* variant: waitIdle settles as soon as one task has failed
QueueIdleFailFast(ts) ==
    \/ \A i \in DOMAIN ts : ts[i].state \in {"ok", "failed"}
    \/ \E i \in DOMAIN ts : ts[i].state = "failed"
\* variant: waitIdle settles only after some task has run
QueueIdleAfterWork(ts) ==
    /\ Len(ts) > 0
    /\ \A i \in DOMAIN ts : ts[i].state \in {"ok", "failed"}
QueueIdle(ts) == \A i \in DOMAIN ts : ts[i].state \in {"ok", "failed"}
\* waitIdle rejects with the error of a permanently failed task
WaitIdleRejects(ts) == \E i \in DOMAIN ts : ts[i].state = "failed"

\* ---- withRetries (lines 76-90) ----
\* variant: off by one in the loop condition
MayAttemptInclusive(t) == t.actualRetries <= retries
\* loop condition
MayAttempt(t) == t.actualRetries < retries
\* the error thrown once the loop is left
ThrownError(t) == t.lastError
\* variant: the last error is dropped and withRetries returns normally
WithRetriesStepSwallow(t, ok) ==
    IF ok
    THEN [t EXCEPT !.attempts = @ + 1, !.putOk = TRUE, !.state = "ok"]
    ELSE LET u == [t EXCEPT !.attempts = @ + 1,
                            !.lastError = t.attempts + 1,
                            !.actualRetries = @ + 1] IN
         IF MayAttempt(u) THEN u ELSE [u EXCEPT !.state = "ok"]
\* one pass through the loop body; ok is the outcome of fn()
WithRetriesStep(t, ok) ==
    IF ok
    THEN [t EXCEPT !.attempts = @ + 1, !.putOk = TRUE, !.state = "ok"]
    ELSE LET u == [t EXCEPT !.attempts = @ + 1,
                            !.lastError = t.attempts + 1,
                            !.actualRetries = @ + 1] IN
         IF MayAttempt(u) THEN u
         ELSE [u EXCEPT !.state = "failed", !.thrown = ThrownError(u)]

\* line 185: the object store is only called outside print mode
Puts(print) == ~print
\* variant: the sidecar is written in every mode
WritesSidecarAlways(print) == TRUE
\* line 236: the sidecar is only written outside print mode
WritesSidecar(print) == ~print

\* ---- main().then/catch (lines 257-262) ----
ExitResolved == "exit0"
\* variant: the catch handler exits like the then handler
ExitRejectedZero == "exit0"
ExitRejected == "exit1"

InitSidecars ==
    {AbsentSidecar}
    \cup {[kind |-> "corrupt", chain |-> <<>>, mtime |-> 0]}
    \cup {[kind |-> "json", chain |-> <<>>, mtime |-> 0]}
    \cup {[kind |-> "json", chain |-> <<RunRecord(BadString, BadString)>>,
           mtime |-> 0]}
    \cup {[kind |-> "json",
           chain |-> <<RunRecord(<<"iso", t>>, <<"iso", t>>)>>,
           mtime |-> t] : t \in {0}}

InitWith(r) ==
    /\ now = 0
    /\ files \in [Files -> {NoFile, 0}]
    /\ sidecar \in InitSidecars
    /\ pc = "idle"
    /\ onlyPrint = FALSE
    /\ metadata = <<>>
    /\ lastUploadTimeMs = 0
    /\ uploadStartTime = 0
    /\ unvisited = {}
    /\ walked = [p \in Paths |-> NotWalked]
    /\ tasks = <<>>
    /\ totalFiles = 0
    /\ totalUploadedFiles = 0
    /\ runs = r
    /\ putCalls = 0
    /\ sidecarAtStart = sidecar
    /\ commitStart = NoFile
    /\ isWinows \in BOOLEAN
    /\ ioError = FALSE
    /\ writes = 0
    /\ totalSize = 0
    /\ totalUploadedSize = 0

Init == InitWith(0)

\* the wall clock advances
Tick ==
    /\ now < MaxTime
    /\ now' = now + 1
    /\ UNCHANGED <<files, sidecar, pc, runVars, runs, commitStart, isWinows>>

\* some other program creates or modifies a file of the source folder
Touch(f) ==
    /\ files[f] # now
    /\ files' = [files EXCEPT ![f] = now]
    /\ UNCHANGED <<now, sidecar, pc, runVars, runs, commitStart, isWinows>>

\* the command is started (lines 117-146 accepted the arguments)
StartRun(print) ==
    /\ pc \in {"idle", "exit0", "exit1"}
    /\ runs < MaxRuns
    /\ runs' = runs + 1
    /\ pc' = "load"
    /\ onlyPrint' = print
    /\ metadata' = <<>>
    /\ lastUploadTimeMs' = 0
    /\ uploadStartTime' = 0
    /\ unvisited' = {}
    /\ walked' = [p \in Paths |-> NotWalked]
    /\ tasks' = <<>>
    /\ totalFiles' = 0
    /\ totalUploadedFiles' = 0
    /\ putCalls' = 0
    /\ sidecarAtStart' = sidecar
    /\ ioError' = FALSE
    /\ writes' = 0
    /\ totalSize' = 0
    /\ totalUploadedSize' = 0
    /\ UNCHANGED <<now, files, sidecar, commitStart, isWinows>>

\* main, lines 149-178
Load ==
    /\ pc = "load"
    /\ LET r == ReadMetadata(sidecar) IN
       IF r.exit
       THEN /\ pc' = ExitRejected
            /\ UNCHANGED <<metadata, lastUploadTimeMs, uploadStartTime,
                           unvisited>>
       ELSE /\ pc' = "scan"
            /\ metadata' = r.metadata
            /\ lastUploadTimeMs' = LastUploadTimeMs(r.metadata)
            /\ uploadStartTime' = now
            /\ unvisited' = Paths
    /\ UNCHANGED <<now, files, sidecar, onlyPrint, walked, tasks, totalFiles,
                   totalSize, totalUploadedFiles, totalUploadedSize, runs,
                   putCalls, sidecarAtStart, ioError, commitStart, isWinows,
                   writes>>

\* stats.size of a file of the source folder
FileSize(p) == p + 1
\* metadataFileContents.length
ContentsLength(m) == 10 * Len(m)

\* the modification time lstat reports for a directory entry
MtimeMs(p) == IF p = Meta THEN sidecar.mtime ELSE files[p]

\* one iteration of the scan loop, lines 198-214
ScanStep(p) ==
    /\ pc = "scan"
    /\ p \in unvisited
    /\ unvisited' = unvisited \ {p}
    /\ IF MtimeMs(p) = NoFile
       THEN UNCHANGED <<walked, totalFiles, totalSize, tasks>>
       ELSE /\ walked' = [walked EXCEPT ![p] = MtimeMs(p)]
            /\ IF p = Meta
               THEN UNCHANGED <<totalFiles, totalSize, tasks>>
               ELSE /\ totalFiles' = totalFiles + 1
                    /\ totalSize' = totalSize + FileSize(p)
                    /\ tasks' = IF ShouldUpload(MtimeMs(p), lastUploadTimeMs)
                                THEN QueueAdd(tasks, FileRecord(p, FileSize(p)))
                                ELSE tasks
    /\ UNCHANGED <<now, files, sidecar, pc, onlyPrint, metadata,
                   lastUploadTimeMs, uploadStartTime, totalUploadedFiles,
                   totalUploadedSize, runs, putCalls, sidecarAtStart, ioError,
                   commitStart, isWinows,
                   writes>>

\* variant: the unreadable directory is skipped and the scan goes on
OnWalkErrorSkip(u) == [pc |-> "scan", unvisited |-> {}]
\* lines 93 and 198: fs.opendir throws for a directory that holds the entries
\* not yet yielded; the error leaves the for-await loop and main rejects
OnWalkError(u) == [pc |-> ExitRejected, unvisited |-> u]

WalkError ==
    /\ pc = "scan"
    /\ unvisited # {}
    /\ ioError' = TRUE
    /\ pc' = OnWalkError(unvisited).pc
    /\ unvisited' = OnWalkError(unvisited).unvisited
    /\ UNCHANGED <<now, files, sidecar, onlyPrint, metadata, lastUploadTimeMs,
                   uploadStartTime, walked, tasks, totalFiles, totalSize,
                   totalUploadedFiles, totalUploadedSize, runs, putCalls,
                   sidecarAtStart, commitStart, isWinows,
                   writes>>

\* the walk is exhausted: lines 216-221, main awaits queue.waitIdle()
ScanDone ==
    /\ pc = "scan"
    /\ unvisited = {}
    /\ pc' = "drain1"
    /\ UNCHANGED <<now, files, sidecar, runVars, runs, commitStart, isWinows>>

\* lines 181-184: on win32 the const destination is assigned again, which
\* throws a TypeError before anything else is done
DestinationThrows(win) == win

\* variant: the counter is bumped when the task settles, failed or not
UploadedFilesAlways(n, t) == IF t.state # "running" THEN n + 1 ELSE n
\* lines 193-194: the counters after a task's withRetries step
UploadedFiles(n, t) == IF t.state = "ok" THEN n + 1 ELSE n
UploadedSize(n, t) == IF t.state = "ok" THEN n + t.size ELSE n

\* upload, lines 181-184, on win32: the task fails at once
UploadThrows(i) ==
    /\ i \in DOMAIN tasks
    /\ tasks[i].state = "running"
    /\ DestinationThrows(isWinows)
    /\ tasks' = StartNext([tasks EXCEPT ![i].state = "failed"])
    /\ UNCHANGED <<now, files, sidecar, pc, onlyPrint, metadata,
                   lastUploadTimeMs, uploadStartTime, unvisited, walked,
                   totalFiles, totalSize, totalUploadedFiles,
                   totalUploadedSize, runs, putCalls, sidecarAtStart, ioError,
                   commitStart, isWinows,
                   writes>>

\* upload, lines 185-194, not in print mode: one attempt of withRetries
Attempt(i, ok) ==
    /\ i \in DOMAIN tasks
    /\ tasks[i].state = "running"
    /\ ~DestinationThrows(isWinows)
    /\ Puts(onlyPrint)
    /\ MayAttempt(tasks[i])
    /\ putCalls' = putCalls + 1
    /\ LET t == WithRetriesStep(tasks[i], ok)
           ts == [tasks EXCEPT ![i] = t] IN
       /\ tasks' = IF t.state = "running" THEN ts ELSE StartNext(ts)
       /\ totalUploadedFiles' = UploadedFiles(totalUploadedFiles, t)
       /\ totalUploadedSize' = UploadedSize(totalUploadedSize, t)
    /\ UNCHANGED <<now, files, sidecar, pc, onlyPrint, metadata,
                   lastUploadTimeMs, uploadStartTime, unvisited, walked,
                   totalFiles, totalSize, runs, sidecarAtStart, ioError,
                   commitStart, isWinows,
                   writes>>

\* upload, lines 185-194, in print mode: nothing is put
UploadPrint(i) ==
    /\ i \in DOMAIN tasks
    /\ tasks[i].state = "running"
    /\ ~DestinationThrows(isWinows)
    /\ ~Puts(onlyPrint)
    /\ LET t == [tasks[i] EXCEPT !.state = "ok"] IN
       /\ tasks' = StartNext([tasks EXCEPT ![i] = t])
       /\ totalUploadedFiles' = UploadedFiles(totalUploadedFiles, t)
       /\ totalUploadedSize' = UploadedSize(totalUploadedSize, t)
    /\ UNCHANGED <<now, files, sidecar, pc, onlyPrint, metadata,
                   lastUploadTimeMs, uploadStartTime, unvisited, walked,
                   totalFiles, totalSize, runs, putCalls, sidecarAtStart,
                   ioError, commitStart, isWinows,
                   writes>>

\* line 221: queue.waitIdle() settles
DrainScan ==
    /\ pc = "drain1"
    /\ QueueIdle(tasks)
    /\ pc' = IF WaitIdleRejects(tasks) THEN ExitRejected ELSE "commit"
    /\ UNCHANGED <<now, files, sidecar, runVars, runs, commitStart, isWinows>>

\* variant: the run-start field is taken when the run ends
NewMetadataAtEnd(m, start, end) ==
    <<RunRecord(DateOf(end), DateOf(end))>> \o DeleteLastMetaData(m)
\* lines 226-245: new metadata, sidecar written and submitted
NewMetadata(m, start, end) ==
    <<RunRecord(DateOf(start), DateOf(end))>> \o DeleteLastMetaData(m)

Commit ==
    /\ pc = "commit"
    /\ metadata' = NewMetadata(metadata, uploadStartTime, now)
    /\ IF WritesSidecar(onlyPrint)
       THEN /\ sidecar' = [kind |-> "json", chain |-> Stringify(metadata'),
                           mtime |-> now]
            /\ commitStart' = uploadStartTime
            /\ writes' = writes + 1
       ELSE UNCHANGED <<sidecar, commitStart, writes>>
    /\ totalFiles' = totalFiles + 1
    /\ totalSize' = totalSize + ContentsLength(metadata')
    /\ tasks' = QueueAdd(tasks, FileRecord(Meta, ContentsLength(metadata')))
    /\ pc' = "drain2"
    /\ UNCHANGED <<now, files, onlyPrint, lastUploadTimeMs, uploadStartTime,
                   unvisited, walked, totalUploadedFiles, totalUploadedSize,
                   runs, putCalls, sidecarAtStart, ioError, isWinows>>

\* lines 247-258: second waitIdle, report, exit
DrainSidecar ==
    /\ pc = "drain2"
    /\ QueueIdle(tasks)
    /\ pc' = IF WaitIdleRejects(tasks) THEN ExitRejected ELSE ExitResolved
    /\ UNCHANGED <<now, files, sidecar, runVars, runs, commitStart, isWinows>>

Next ==
    \/ Tick
    \/ \E f \in Files : Touch(f)
    \/ \E print \in BOOLEAN : StartRun(print)
    \/ Load
    \/ \E p \in Paths : ScanStep(p)
    \/ WalkError
    \/ ScanDone
    \/ \E i \in 1..(NumFiles + 1) : UploadThrows(i)
    \/ \E i \in 1..(NumFiles + 1), ok \in BOOLEAN : Attempt(i, ok)
    \/ \E i \in 1..(NumFiles + 1) : UploadPrint(i)
    \/ DrainScan
    \/ Commit
    \/ DrainSidecar

Spec == Init /\ [][Next]_vars

\* every step of the running process; the process is scheduled as long as
\* it can take a step, and every put attempt returns
Run ==
    \/ Load
    \/ \E p \in Paths : ScanStep(p)
    \/ WalkError
    \/ ScanDone
    \/ \E i \in 1..(NumFiles + 1) : UploadThrows(i)
    \/ \E i \in 1..(NumFiles + 1), ok \in BOOLEAN : Attempt(i, ok)
    \/ \E i \in 1..(NumFiles + 1) : UploadPrint(i)
    \/ DrainScan
    \/ Commit
    \/ DrainSidecar

\* the last run of the model, under fair scheduling of the process
LiveInit == InitWith(MaxRuns - 1)
LiveSpec == LiveInit /\ [][Next]_vars /\ WF_vars(Run)

\* ---- the scan of a folder with more eligible files than queue slots ----
\* A run with no sidecar, past the load, on a folder of MaxTasks files; the
\* clock, other programs and further runs are left out.
QInit ==
    /\ now = 0
    /\ files = [f \in Files |-> 0]
    /\ sidecar = AbsentSidecar
    /\ pc = "scan"
    /\ onlyPrint \in BOOLEAN
    /\ metadata = <<>>
    /\ lastUploadTimeMs = 0
    /\ uploadStartTime = 0
    /\ unvisited = {}
    /\ walked = [p \in Paths |-> NotWalked]
    /\ tasks = <<>>
    /\ totalFiles = 0
    /\ totalUploadedFiles = 0
    /\ runs = 1
    /\ putCalls = 0
    /\ sidecarAtStart = sidecar
    /\ commitStart = NoFile
    /\ isWinows = FALSE
    /\ ioError = FALSE
    /\ writes = 0
    /\ totalSize = 0
    /\ totalUploadedSize = 0

\* lines 198-209 for the next file of the folder: upload(file) is called and
\* the loop goes on to the next file without awaiting the returned promise
QSubmit ==
    /\ pc = "scan"
    /\ Len(tasks) < MaxTasks
    /\ LET p == Len(tasks) + 1 IN
       /\ totalFiles' = totalFiles + 1
       /\ totalSize' = totalSize + FileSize(p)
       /\ tasks' = IF ShouldUpload(0, lastUploadTimeMs)
                   THEN QueueAdd(tasks, FileRecord(p, FileSize(p)))
                   ELSE tasks
    /\ UNCHANGED <<now, files, sidecar, pc, onlyPrint, metadata,
                   lastUploadTimeMs, uploadStartTime, unvisited, walked,
                   totalUploadedFiles, totalUploadedSize, runs, putCalls,
                   sidecarAtStart, ioError, commitStart, isWinows,
                   writes>>

QSteps == IF onlyPrint THEN totalUploadedFiles ELSE putCalls

QStep(i) ==
    /\ QSteps < MaxSteps
    /\ (UploadPrint(i) \/ \E ok \in BOOLEAN : Attempt(i, ok))

QNext == QSubmit \/ \E i \in 1..MaxTasks : QStep(i)

QSpec == QInit /\ [][QNext]_vars

\* ---- what a run has done so far ----
Started == pc # "idle"
BeforeCommit == pc \in {"scan", "drain1", "commit"}
\* fs.writeFile has been called in this run
Rewritten == writes > 0
TasksFor(p) == {i \in DOMAIN tasks : tasks[i].path = p}
DataTasks == {i \in DOMAIN tasks : tasks[i].path # Meta}
WalkedFiles == {p \in Files : walked[p] # NotWalked}

TypeOK ==
    /\ now \in 0..MaxTime
    /\ pc \in {"idle", "load", "scan", "drain1", "commit", "drain2",
               "exit0", "exit1"}
    /\ files \in [Files -> {NoFile} \cup 0..MaxTime]
    /\ Len(tasks) <= NumFiles + 1

\* C1: every regular file walked in the scan, other than the sidecar, has
\* exactly one upload task if its modified-time is at or after the loaded
\* watermark and none if it is before the watermark.
C1_ChangeFilter ==
    \A p \in WalkedFiles :
        /\ GE(walked[p], lastUploadTimeMs) => Cardinality(TasksFor(p)) = 1
        /\ LT(walked[p], lastUploadTimeMs) => Cardinality(TasksFor(p)) = 0

C1_Witness ==
    /\ pc = "drain1"
    /\ lastUploadTimeMs > 0
    /\ \E p, q \in WalkedFiles :
        /\ walked[p] >= lastUploadTimeMs /\ Cardinality(TasksFor(p)) = 1
        /\ walked[q] < lastUploadTimeMs /\ Cardinality(TasksFor(q)) = 0

\* C2: in the run that follows a committed run N, every walked file whose
\* modified-time is at or after run N's start time has an upload task, also
\* when it was modified while run N was still in progress.
C2_NoMissedChange ==
    (BeforeCommit /\ commitStart # NoFile) =>
        \A p \in WalkedFiles :
            walked[p] >= commitStart => TasksFor(p) # {}

C2_Witness ==
    /\ pc = "drain1"
    /\ commitStart # NoFile
    /\ \E p \in WalkedFiles :
        /\ walked[p] > commitStart
        /\ walked[p] < GetTime(metadata[1].uploadEndTime)
        /\ TasksFor(p) # {}

\* C3: a run in which an upload task exhausted its retries does not go on
\* past the drain and does not report success: the error leaves waitIdle and
\* the process exits non-zero.
C3_FailureAborts ==
    WaitIdleRejects(tasks) => pc \notin {"commit", "exit0"}

C3_Witness ==
    /\ pc = "exit1"
    /\ \E i \in DOMAIN tasks : tasks[i].state = "failed" /\ tasks[i].path # Meta
    /\ \E i \in DOMAIN tasks : tasks[i].state = "ok"

\* C4: a run with a permanently failed data-file upload never rewrites the
\* sidecar; whenever a non-print run has rewritten the sidecar, every task
\* submitted during its scan was put successfully.
C4_CommitOnlyAfterSuccess ==
    /\ (\E i \in DataTasks : ~tasks[i].putOk /\ tasks[i].state # "running"
                             /\ ~onlyPrint)
           => (~Rewritten /\ pc \notin {"commit", "drain2", "exit0"})
    /\ (~onlyPrint /\ Rewritten) =>
           \A i \in DataTasks : tasks[i].state = "ok" /\ tasks[i].putOk

C4_Witness ==
    /\ pc = "exit1"
    /\ ~onlyPrint
    /\ sidecar.kind = "json"
    /\ sidecar = sidecarAtStart
    /\ \E i \in DataTasks : tasks[i].state = "failed"
    /\ \E i \in DataTasks : tasks[i].state = "ok"

\* C5 as stated: after a committed run that had loaded a usable watermark,
\* with no file changed since that run ended, the next run submits no
\* data-file upload task.
C5_Original ==
    (/\ BeforeCommit
     /\ commitStart # NoFile
     /\ Len(metadata) > 1 => GetTime(metadata[2].uploadStartTime) # NaN
     /\ \A f \in Files : files[f] < GetTime(metadata[1].uploadEndTime))
        => DataTasks = {}

\* C5 amended: after a committed run, when every file's modified-time is
\* earlier than that run's start time, the next run submits no data-file
\* upload task.
C5_Idempotent ==
    (/\ BeforeCommit
     /\ commitStart # NoFile
     /\ \A f \in Files : files[f] < commitStart)
        => DataTasks = {}

C5_Witness ==
    /\ pc = "commit"
    /\ commitStart # NoFile
    /\ WalkedFiles = Files
    /\ \A f \in Files : files[f] < commitStart
    /\ tasks = <<>>

\* C6: the run-start time a run persists in the sidecar is that run's own
\* start time and is not before the watermark the run loaded.
C6_WatermarkMonotone ==
    (~onlyPrint /\ Rewritten) =>
        /\ sidecar.kind = "json"
        /\ Len(sidecar.chain) > 0
        /\ GetTime(sidecar.chain[1].uploadStartTime) = uploadStartTime
        /\ commitStart = uploadStartTime
        /\ lastUploadTimeMs # NaN => uploadStartTime >= lastUploadTimeMs

C6_Witness ==
    /\ pc = "drain2"
    /\ ~onlyPrint
    /\ lastUploadTimeMs > 0
    /\ uploadStartTime > lastUploadTimeMs
    /\ GetTime(sidecar.chain[1].uploadStartTime) = uploadStartTime

\* C7: a print-only run makes no put call and leaves the sidecar file as it
\* was, absent or present.
C7_PrintOnlyFrame ==
    (onlyPrint /\ Started) =>
        (putCalls = 0 /\ sidecar = sidecarAtStart /\ writes = 0)

C7_Witness ==
    /\ onlyPrint
    /\ pc = "exit0"
    /\ Cardinality(DataTasks) >= 2
    /\ sidecar.kind = "absent"

\* C8: with a sidecar that is malformed or lacks the run-start field the run
\* aborts before scanning: nothing walked, no task, no put, no rewrite.
InvalidSidecar(sc) ==
    sc.kind = "corrupt" \/ (sc.kind = "json" /\ Len(sc.chain) = 0)

C8_CorruptAborts ==
    (Started /\ InvalidSidecar(sidecarAtStart)) =>
        /\ pc \in {"load", "exit1"}
        /\ unvisited = {}
        /\ \A p \in Paths : walked[p] = NotWalked
        /\ tasks = <<>>
        /\ putCalls = 0
        /\ sidecar = sidecarAtStart
        /\ writes = 0

C8_Witness ==
    /\ pc = "exit1"
    /\ sidecarAtStart.kind = "corrupt"
    /\ \E f \in Files : files[f] # NoFile

\* C9: with no sidecar the run is not aborted by the load (it aborts only on
\* a failed upload or an unreadable directory), uses watermark 0 and submits
\* one upload task for every walked regular file.
C9_AbsentIsFirstRun ==
    (sidecarAtStart.kind = "absent" /\ pc \notin {"idle", "load"}) =>
        /\ lastUploadTimeMs = 0
        /\ pc = "exit1" => (WaitIdleRejects(tasks) \/ ioError)
        /\ \A p \in WalkedFiles : Cardinality(TasksFor(p)) = 1

C9_Witness ==
    /\ sidecarAtStart.kind = "absent"
    /\ pc = "drain1"
    /\ WalkedFiles = Files
    /\ \A p \in Files : Cardinality(TasksFor(p)) = 1

\* C10: withRetries, where upload calls it, makes k+1 attempts when the
\* operation fails k < retries times and then succeeds, and after retries
\* failures throws the error of the last attempt without attempting again.
C10_RetryBound ==
    (Puts(onlyPrint) /\ ~DestinationThrows(isWinows)) =>
        \A i \in DOMAIN tasks :
            LET t == tasks[i] IN
            /\ t.attempts <= retries
            /\ t.state = "ok" =>
                   (t.actualRetries < retries /\ t.attempts = t.actualRetries + 1)
            /\ t.state = "failed" =>
                   (t.actualRetries = retries /\ t.attempts = retries
                    /\ t.thrown = retries)
            /\ t.state = "running" => t.attempts = t.actualRetries

C10_Witness ==
    /\ \E i \in DOMAIN tasks : tasks[i].state = "ok" /\ tasks[i].attempts = retries
    /\ \E i \in DOMAIN tasks : tasks[i].state = "failed" /\ tasks[i].thrown = retries

\* ---- the queue ----
Queued(ts) == {i \in DOMAIN ts : ts[i].state = "queued"}

\* C11: the number of upload operations in flight never exceeds the
\* configured concurrency.
C11_ConcurrencyBound == Running(tasks) <= concurrency

C11_Witness ==
    /\ Running(tasks) = concurrency
    /\ Queued(tasks) # {}
    /\ \E i \in DOMAIN tasks : tasks[i].state = "ok"

\* C12: the sidecar is rewritten once, in the commit step, when every task
\* submitted during the scan has completed; the sidecar's own task is
\* submitted once, after that rewrite, and is the last task of the run.
C12_Barrier ==
    /\ Cardinality(TasksFor(Meta)) <= 1
    /\ TasksFor(Meta) # {} =>
           /\ TasksFor(Meta) = {Len(tasks)}
           /\ \A i \in DataTasks : tasks[i].state = "ok"
           /\ WritesSidecar(onlyPrint) => Rewritten
    /\ Rewritten => TasksFor(Meta) # {}
    /\ pc = "exit0" => TasksFor(Meta) # {}

C12_DrainBarriers ==
    /\ []C12_Barrier
    /\ [][(sidecar' # sidecar \/ writes' > writes) =>
            /\ pc = "commit"
            /\ writes = 0
            /\ writes' = 1
            /\ sidecar = sidecarAtStart
            /\ QueueIdle(tasks)
            /\ TasksFor(Meta) = {}]_vars

C12_Witness ==
    /\ pc = "exit0"
    /\ ~onlyPrint
    /\ Rewritten
    /\ Len(tasks) = 3
    /\ tasks[3].path = Meta
    /\ tasks[3].attempts > 1

C14_Settled ==
    (pc \in {"exit0", "exit1"} /\ WaitIdleRejects(tasks) /\ ~ioError) =>
        \A i \in DOMAIN tasks : tasks[i].state \in {"ok", "failed"}

C14_InFlightCompletes ==
    /\ []C14_Settled
    /\ [][(\E i \in DOMAIN tasks :
              /\ tasks[i].state = "running"
              /\ i \in DOMAIN tasks'
              /\ tasks'[i].state = "failed") => pc' = pc]_vars

C14_Witness ==
    /\ pc = "drain1"
    /\ \E i \in DOMAIN tasks : tasks[i].state = "failed"
    /\ \E i \in DOMAIN tasks : tasks[i].state = "running" /\ tasks[i].attempts > 0

\* C15 as stated: while all workers are busy the scan loop is suspended, so
\* at most the one task whose submission suspended the loop is submitted
\* and not started.
C15_Backpressure == Cardinality(Queued(tasks)) <= 1

\* ---- counters ----
OkTasks == {i \in DOMAIN tasks : tasks[i].state = "ok"}
RECURSIVE SumSizes(_)
SumSizes(S) ==
    IF S = {} THEN 0
    ELSE LET i == CHOOSE j \in S : TRUE IN tasks[i].size + SumSizes(S \ {i})

\* C16: the uploaded-files counter is the number of tasks that completed
\* successfully and the uploaded-bytes counter the sum of their sizes, at
\* the report and before; the uploaded-files counter never exceeds the
\* total-files counter.
C16_Counters ==
    /\ totalUploadedFiles = Cardinality(OkTasks)
    /\ totalUploadedSize = SumSizes(OkTasks)
    /\ totalUploadedFiles <= totalFiles

C16_Witness ==
    /\ pc = "exit0"
    /\ ~onlyPrint
    /\ totalUploadedFiles = 3
    /\ totalFiles = 3
    /\ \E i \in DOMAIN tasks : tasks[i].actualRetries = 2
    /\ \E i \in DOMAIN tasks : tasks[i].actualRetries = 0

\* C17: a directory that cannot be opened aborts the run with a non-zero
\* exit: the run does not commit, the sidecar is not rewritten and the
\* sidecar is not submitted.
C17_WalkErrorAborts ==
    ioError =>
        /\ pc = "exit1"
        /\ ~Rewritten
        /\ sidecar = sidecarAtStart
        /\ TasksFor(Meta) = {}

C17_Witness ==
    /\ ioError
    /\ pc = "exit1"
    /\ sidecar.kind = "json"
    /\ \E p \in WalkedFiles : TasksFor(p) # {}
    /\ \E p \in Files : p \in unvisited /\ files[p] > lastUploadTimeMs

\* C18: under fair scheduling every started run reaches a terminal state,
\* and no upload is attempted more than retries times.
C18_Terminates ==
    /\ (pc = "load") ~> (pc \in {"exit0", "exit1"})
    /\ [](\A i \in DOMAIN tasks : tasks[i].attempts <= retries)

C18_Witness ==
    /\ pc = "exit0"
    /\ runs = MaxRuns
    /\ \E i \in DOMAIN tasks : tasks[i].attempts = retries

\* C19 as stated: on every platform a task reaches the put; none fails
\* before its first put attempt.
C19_RemoteKey ==
    Puts(onlyPrint) =>
        \A i \in DOMAIN tasks :
            tasks[i].state = "failed" => tasks[i].attempts > 0

\* C20 as stated: a run that loaded a sidecar whose run-start field is
\* present but does not parse as a timestamp ends in abort; it does not
\* walk a non-empty folder, commit a new watermark and exit 0.
UnparseableStart(sc) ==
    /\ sc.kind = "json"
    /\ Len(sc.chain) > 0
    /\ GetTime(sc.chain[1].uploadStartTime) = NaN

C20_ValidWatermark ==
    (/\ UnparseableStart(sidecarAtStart)
     /\ pc \in {"exit0", "exit1"}
     /\ WalkedFiles # {})
        => (pc = "exit1" /\ ~Rewritten)
====
